---- MODULE Spec2Model ----
(***************************************************************************)
(* GeoCachingBlockchain: the GeoCache chaincode as a state machine.        *)
(*                                                                         *)
(* The world state (the ledger's key/value store) is the only persistent   *)
(* state; the contract object itself holds none.  Every transaction of    *)
(* the contract is one action: it reads the store, decides, and issues at  *)
(* most one PutState or DelState.  The result handed back to the invoker   *)
(* is kept in `last` until the platform has delivered it.  `prior` and     *)
(* `history` are history variables: the invocation completed just before,  *)
(* and per key the caller of the latest successful Create and the reports  *)
(* accepted since.                                                         *)
(*                                                                         *)
(* Two revisions of the contract live in the repository and both are       *)
(* modelled, over the same world state:                                    *)
(*   - the current contract (src/unnamed/part_004), specification Spec;    *)
(*   - the first owner-aware revision (src/geo-cache-contract.go, lines    *)
(*     1-215), specification SpecRev1, whose actions carry the suffix      *)
(*     _Rev1.                                                              *)
(***************************************************************************)
EXTENDS Integers, Sequences, FiniteSets, TLC

VARIABLES store, last, prior, history

vars == <<store, last, prior, history>>

(***************************************************************************)
(* Bounds of the model.                                                    *)
(***************************************************************************)
\* Entries a record's two logs (visitors and reports) hold together.
MaxLogEntries == 2

(***************************************************************************)
(* Input domains.                                                          *)
(***************************************************************************)
Keys == {"k1"}

\* Callers as the platform supplies them: a raw Id, a Name and whatever Salt
\* the client put in the argument (TestCreateGeoCache leaves it empty, the
\* other tests send "123").
UserA == [Id |-> "A", Name |-> "alice", Salt |-> ""]
UserB == [Id |-> "B", Name |-> "bob", Salt |-> "r1"]
Users == {UserA, UserB}

\* <<name, description>> and <<xRange, yRange>> arguments: both components
\* differ between the two choices, so a change of either is seen.
Labels == {<<"n0", "d0">>, <<"n1", "d1">>}
Areas == {<< <<1, 3>>, <<2, 4>> >>, << <<2, 4>>, <<1, 3>> >>}
Coords == 1 .. 3
TrackableValues == {"v1"}
Messages == {"m1"}

\* What generateRandomString can return (8 runes of a 62 letter alphabet in
\* the code; two representatives here).
RandomStrings == {"r1", "r2"}

\* Trackables a visitor can hand in: every trackable a creation can have
\* produced, and a foreign one.
Trackables ==
    [Id : RandomStrings, Value : TrackableValues] \cup {[Id |-> "t9", Value |-> "v9"]}

(***************************************************************************)
(* Record shapes (zero values as Go's new(T) gives them).                  *)
(***************************************************************************)
ZeroUser == [Id |-> "", Name |-> "", Salt |-> ""]

ZeroTrackable == [Id |-> "", Value |-> ""]

ZeroGeoCache ==
    [Id |-> "", Name |-> "", Description |-> "",
     XcoordRange |-> <<0, 0>>, YcoordRange |-> <<0, 0>>,
     Owner |-> ZeroUser, Reports |-> <<>>, Visitors |-> <<>>,
     Trackable |-> ZeroTrackable]

Report(id, message, notifier) ==
    [Id |-> id, Message |-> message, Notifier |-> notifier]

(***************************************************************************)
(* Bytes in the world state.  A value is nil (no value for the key), the   *)
(* JSON of a GeoCache, or bytes that are not JSON of a GeoCache ("some     *)
(* value" in the tests).                                                   *)
(***************************************************************************)
NilBytes == [kind |-> "nil", doc |-> ZeroGeoCache]

SomeValue == [kind |-> "raw", doc |-> ZeroGeoCache]

Marshal(geoCache) == [kind |-> "json", doc |-> geoCache]

\* A parser that accepts any bytes and leaves the target at its zero value.
Unmarshal_Lenient(bytes) ==
    IF bytes.kind = "json"
    THEN [err |-> FALSE, geoCache |-> bytes.doc]
    ELSE [err |-> FALSE, geoCache |-> ZeroGeoCache]

\* json.Unmarshal(bytes, geoCache): an error on nil or non-JSON bytes, the
\* target left at its zero value.
Unmarshal(bytes) ==
    IF bytes.kind = "json"
    THEN [err |-> FALSE, geoCache |-> bytes.doc]
    ELSE [err |-> TRUE, geoCache |-> ZeroGeoCache]

(***************************************************************************)
(* Store faults of one invocation.  At most one store call of an           *)
(* invocation can be seen to fail, since every failure ends it:            *)
(*   "exists"  the GetState inside GeoCacheExists returns an error,        *)
(*   "read"    the second GetState (error dropped by the code) fails and   *)
(*             yields nil bytes,                                           *)
(*   "write"   PutState / DelState returns an error and writes nothing.    *)
(***************************************************************************)
ErrNone == "nil"
StoreReadError == "StoreReadError"
StoreWriteError == "StoreWriteError"
AlreadyExists == "AlreadyExists"
NotFound == "NotFound"
DeserializationError == "DeserializationError"
NotOwner == "NotOwner"
OutOfRange == "OutOfRange"

\* stub.GetState(key) for the second read of an operation.
GetState(k, fault) == IF fault = "read" THEN NilBytes ELSE store[k]

\* GeoCacheExists that counts only values that are a GeoCache.
GeoCacheExists_RecordsOnly(k, fault) ==
    IF fault = "exists"
    THEN [exists |-> FALSE, err |-> TRUE]
    ELSE [exists |-> store[k].kind = "json", err |-> FALSE]

\* GeoCacheExists with the nil test lost: every key reads as free.
GeoCacheExists_NoCheck(k, fault) ==
    IF fault = "exists"
    THEN [exists |-> FALSE, err |-> TRUE]
    ELSE [exists |-> FALSE, err |-> FALSE]

\* GeoCacheExists with the nil test inverted (data == nil).
GeoCacheExists_Inverted(k, fault) ==
    IF fault = "exists"
    THEN [exists |-> FALSE, err |-> TRUE]
    ELSE [exists |-> store[k] = NilBytes, err |-> FALSE]

\* GeoCacheExists: (exists, err).
GeoCacheExists(k, fault) ==
    IF fault = "exists"
    THEN [exists |-> FALSE, err |-> TRUE]
    ELSE [exists |-> store[k] # NilBytes, err |-> FALSE]

(***************************************************************************)
(* Identity commitment.                                                    *)
(***************************************************************************)
\* `passes` successive SHA-1 digests, each on the previous output, abstracted
\* as an injective constructor on strings.
Sha1Passes(s, passes) ==
    IF passes = 0 THEN s ELSE "sha1^" \o ToString(passes) \o "(" \o s \o ")"

HexEncode(s) == "hex(" \o s \o ")"

HashLoopStart == 1
HashLoopLimit == 100

\* The loop with n <= 100 for its condition.
HashLoop_Inclusive(s) == Sha1Passes(s, Cardinality({n \in HashLoopStart .. HashLoopLimit : n <= HashLoopLimit}))

\* n := 1; for n < 100 { s = sha1(s); n++ }: one pass for each value n takes.
HashLoop(s) == Sha1Passes(s, Cardinality({n \in HashLoopStart .. HashLoopLimit - 1 : n < HashLoopLimit}))

myHash(s) == HexEncode(HashLoop(s))

(***************************************************************************)
(* What an invocation hands back.  `ret` is empty when the Go function     *)
(* returns nil (or has no value to return) and holds the value otherwise.  *)
(* `old` is the value under the key when the invocation began; gets, puts  *)
(* and dels count the store calls it issued.                               *)
(***************************************************************************)
NoCall ==
    [op |-> "none", key |-> "", user |-> ZeroUser, args |-> <<>>, fault |-> "none",
     old |-> NilBytes, err |-> ErrNone, ret |-> <<>>,
     gets |-> 0, puts |-> 0, dels |-> 0]

Result(op, k, user, args, fault, err, ret, gets, puts, dels) ==
    [op |-> op, key |-> k, user |-> user, args |-> args, fault |-> fault,
     old |-> store[k], err |-> err, ret |-> ret,
     gets |-> gets, puts |-> puts, dels |-> dels]

\* The invocations whose completion the next one can be told to follow.
NoPrior ==
    [op |-> "none", key |-> "", user |-> ZeroUser, args |-> <<>>, err |-> ErrNone,
     ret |-> <<>>]

Summary(call, followed) ==
    IF call.op \in followed /\ call.err = ErrNone
    THEN [op |-> call.op, key |-> call.key, user |-> call.user, args |-> call.args,
          err |-> call.err, ret |-> call.ret]
    ELSE NoPrior

Idle == last.op = "none"

NoHistory == [creator |-> <<>>, reports |-> <<>>]

\* A successful Create starts the key's history; a failed one leaves it.
Created(k, user, fault) ==
    history' = IF fault = "write" THEN history
               ELSE [history EXCEPT ![k] = [creator |-> <<user>>, reports |-> <<>>]]

\* A successful Report is added to the key's history.
Reported(k, report, fault) ==
    history' = IF fault = "write" THEN history
               ELSE [history EXCEPT ![k].reports = Append(@, report)]

\* A delete that blanks the record (writes an empty GeoCache) and keeps the key.
DelState_PutsEmpty(k, fault) ==
    store' = IF fault = "write" THEN store ELSE [store EXCEPT ![k] = Marshal(ZeroGeoCache)]

\* A put that lands on every key of the store.
PutState_EveryKey(k, bytes, fault) ==
    store' = IF fault = "write" THEN store ELSE [j \in DOMAIN store |-> bytes]

\* stub.PutState(key, bytes) and stub.DelState(key); a failed call writes nothing.
PutState(k, bytes, fault) ==
    store' = IF fault = "write" THEN store ELSE [store EXCEPT ![k] = bytes]

DelState(k, fault) ==
    store' = IF fault = "write" THEN store ELSE [store EXCEPT ![k] = NilBytes]

\* A write whose result is reported as an error whatever the store answered.
WriteErr_Always(fault) == StoreWriteError

\* A write whose failure is dropped, as `_ = PutState(...)` would.
WriteErr_Swallowed(fault) == ErrNone

\* return ctx.GetStub().PutState(...): the store's answer is the result.
WriteErr(fault) == IF fault = "write" THEN StoreWriteError ELSE ErrNone

(***************************************************************************)
(* The current contract (src/unnamed/part_004).                            *)
(***************************************************************************)

\* An opening that takes a free key for an empty record.
Load_Upsert(k, fault) ==
    LET e == GeoCacheExists(k, fault)
        u == Unmarshal(GetState(k, fault))
    IN  IF e.err THEN [err |-> StoreReadError, geoCache |-> ZeroGeoCache, gets |-> 1]
        ELSE IF ~e.exists THEN [err |-> ErrNone, geoCache |-> ZeroGeoCache, gets |-> 1]
        ELSE IF u.err THEN [err |-> DeserializationError, geoCache |-> ZeroGeoCache, gets |-> 2]
        ELSE [err |-> ErrNone, geoCache |-> u.geoCache, gets |-> 2]

\* The opening without its `else if !exists` branch.
Load_NoExistsCheck(k, fault) ==
    LET e == GeoCacheExists(k, fault)
        u == Unmarshal(GetState(k, fault))
    IN  IF e.err THEN [err |-> StoreReadError, geoCache |-> ZeroGeoCache, gets |-> 1]
        ELSE IF u.err THEN [err |-> DeserializationError, geoCache |-> ZeroGeoCache, gets |-> 2]
        ELSE [err |-> ErrNone, geoCache |-> u.geoCache, gets |-> 2]

\* An opening that goes on with the zero record when json.Unmarshal fails.
Load_SkipsParseError(k, fault) ==
    LET e == GeoCacheExists(k, fault)
        u == Unmarshal(GetState(k, fault))
    IN  IF e.err THEN [err |-> StoreReadError, geoCache |-> ZeroGeoCache, gets |-> 1]
        ELSE IF ~e.exists THEN [err |-> NotFound, geoCache |-> ZeroGeoCache, gets |-> 1]
        ELSE [err |-> ErrNone, geoCache |-> u.geoCache, gets |-> 2]

\* The opening of every operation but Create: the existence check, the
\* second GetState and json.Unmarshal.
Load(k, fault) ==
    LET e == GeoCacheExists(k, fault)
        u == Unmarshal(GetState(k, fault))
    IN  IF e.err THEN [err |-> StoreReadError, geoCache |-> ZeroGeoCache, gets |-> 1]
        ELSE IF ~e.exists THEN [err |-> NotFound, geoCache |-> ZeroGeoCache, gets |-> 1]
        ELSE IF u.err THEN [err |-> DeserializationError, geoCache |-> ZeroGeoCache, gets |-> 2]
        ELSE [err |-> ErrNone, geoCache |-> u.geoCache, gets |-> 2]

\* geoCache.Owner.Id != myHash(user.Id + geoCache.Owner.Salt), negated.
IsOwner(user, geoCache) == geoCache.Owner.Id = myHash(user.Id \o geoCache.Owner.Salt)

\* The geofence with each coordinate held against the other axis's range.
InRange_AxesSwapped(Xcoord, Ycoord, geoCache) ==
    LET Xin == Xcoord > geoCache.YcoordRange[1] /\ Xcoord < geoCache.YcoordRange[2]
        Yin == Ycoord > geoCache.XcoordRange[1] /\ Ycoord < geoCache.XcoordRange[2]
    IN  Xin /\ Yin

\* The geofence that admits a point inside either range (`!Xin && !Yin` for
\* `!Xin || !Yin`).
InRange_Either(Xcoord, Ycoord, geoCache) ==
    LET Xin == Xcoord > geoCache.XcoordRange[1] /\ Xcoord < geoCache.XcoordRange[2]
        Yin == Ycoord > geoCache.YcoordRange[1] /\ Ycoord < geoCache.YcoordRange[2]
    IN  Xin \/ Yin

\* The geofence with >= and <= for > and <.
InRange_Inclusive(Xcoord, Ycoord, geoCache) ==
    LET Xin == Xcoord >= geoCache.XcoordRange[1] /\ Xcoord <= geoCache.XcoordRange[2]
        Yin == Ycoord >= geoCache.YcoordRange[1] /\ Ycoord <= geoCache.YcoordRange[2]
    IN  Xin /\ Yin

\* Xin && Yin of AddVisitorToGeoCache.
InRange(Xcoord, Ycoord, geoCache) ==
    LET Xin == Xcoord > geoCache.XcoordRange[1] /\ Xcoord < geoCache.XcoordRange[2]
        Yin == Ycoord > geoCache.YcoordRange[1] /\ Ycoord < geoCache.YcoordRange[2]
    IN  Xin /\ Yin

\* A creation that keeps the salt the caller sent instead of the drawn one.
NewGeoCache_CallerSalt(user, name, description, newXcoordRange, newYcoordRange, trackableValue, salt, id) ==
    [ZeroGeoCache EXCEPT
        !.Name = name,
        !.Description = description,
        !.XcoordRange = newXcoordRange,
        !.YcoordRange = newYcoordRange,
        !.Owner = [user EXCEPT !.Id = myHash(user.Id \o user.Salt)],
        !.Reports = <<>>,
        !.Visitors = <<>>,
        !.Trackable = [Id |-> id, Value |-> trackableValue]]

\* A creation that enters the creator as the first visitor.
NewGeoCache_CreatorVisits(user, name, description, newXcoordRange, newYcoordRange, trackableValue, salt, id) ==
    [ZeroGeoCache EXCEPT
        !.Name = name,
        !.Description = description,
        !.XcoordRange = newXcoordRange,
        !.YcoordRange = newYcoordRange,
        !.Owner = [user EXCEPT !.Salt = salt, !.Id = myHash(user.Id \o salt)],
        !.Reports = <<>>,
        !.Visitors = <<user>>,
        !.Trackable = [Id |-> id, Value |-> trackableValue]]

\* The object CreateGeoCache builds; salt and id are the two strings it draws
\* from generateRandomString.
NewGeoCache(user, name, description, newXcoordRange, newYcoordRange, trackableValue, salt, id) ==
    [ZeroGeoCache EXCEPT
        !.Name = name,
        !.Description = description,
        !.XcoordRange = newXcoordRange,
        !.YcoordRange = newYcoordRange,
        !.Owner = [user EXCEPT !.Salt = salt, !.Id = myHash(user.Id \o salt)],
        !.Reports = <<>>,
        !.Visitors = <<>>,
        !.Trackable = [Id |-> id, Value |-> trackableValue]]

Exists(k, fault) ==
    LET e == GeoCacheExists(k, fault)
    IN  /\ Idle
        /\ store' = store
        /\ last' = Result("GeoCacheExists", k, ZeroUser, <<>>, fault,
                          IF e.err THEN StoreReadError ELSE ErrNone,
                          <<e.exists>>, 1, 0, 0)
        /\ UNCHANGED <<prior, history>>

CreateGeoCache(user, k, name, description, newXcoordRange, newYcoordRange, trackableValue, fault) ==
    LET e == GeoCacheExists(k, fault)
        args == [name |-> name, description |-> description,
                 newXcoordRange |-> newXcoordRange, newYcoordRange |-> newYcoordRange,
                 trackableValue |-> trackableValue]
    IN  /\ Idle
        /\ \/ /\ e.err
              /\ UNCHANGED <<store, history>>
              /\ last' = Result("CreateGeoCache", k, user, args, fault,
                                StoreReadError, <<>>, 1, 0, 0)
           \/ /\ ~e.err /\ e.exists
              /\ UNCHANGED <<store, history>>
              /\ last' = Result("CreateGeoCache", k, user, args, fault,
                                AlreadyExists, <<>>, 1, 0, 0)
           \/ /\ ~e.err /\ ~e.exists
              /\ \E salt \in RandomStrings, id \in RandomStrings :
                    PutState(k, Marshal(NewGeoCache(user, name, description,
                                 newXcoordRange, newYcoordRange, trackableValue, salt, id)),
                             fault)
              /\ Created(k, user, fault)
              /\ last' = Result("CreateGeoCache", k, user, args, fault,
                                WriteErr(fault), <<>>, 1, 1, 0)
        /\ prior' = prior

ReadGeoCache(k, fault) ==
    LET l == Load(k, fault)
    IN  /\ Idle
        /\ store' = store
        /\ last' = Result("ReadGeoCache", k, ZeroUser, <<>>, fault, l.err,
                          IF l.err = ErrNone THEN <<l.geoCache>> ELSE <<>>,
                          l.gets, 0, 0)
        /\ UNCHANGED <<prior, history>>

UpdateGeoCache(user, k, newName, newDescription, fault) ==
    LET l == Load(k, fault)
        args == [newName |-> newName, newDescription |-> newDescription]
        geoCache == [l.geoCache EXCEPT !.Name = newName, !.Description = newDescription]
    IN  /\ Idle
        /\ \/ /\ l.err # ErrNone
              /\ store' = store
              /\ last' = Result("UpdateGeoCache", k, user, args, fault, l.err, <<>>,
                                l.gets, 0, 0)
           \/ /\ l.err = ErrNone /\ ~IsOwner(user, l.geoCache)
              /\ store' = store
              /\ last' = Result("UpdateGeoCache", k, user, args, fault, NotOwner, <<>>,
                                l.gets, 0, 0)
           \/ /\ l.err = ErrNone /\ IsOwner(user, l.geoCache)
              /\ PutState(k, Marshal(geoCache), fault)
              /\ last' = Result("UpdateGeoCache", k, user, args, fault, WriteErr(fault),
                                <<>>, l.gets, 1, 0)
        /\ UNCHANGED <<prior, history>>

\* The visitor log with the caller put in front instead of at the end.
AppendVisitor_InFront(geoCache, user) ==
    [geoCache EXCEPT !.Visitors = <<user>> \o @]

\* geoCache.Visitors = append(geoCache.Visitors, user)
AppendVisitor(geoCache, user) ==
    [geoCache EXCEPT !.Visitors = Append(@, user)]

AddVisitorToGeoCache(user, k, Xcoord, Ycoord, fault) ==
    LET l == Load(k, fault)
        args == [Xcoord |-> Xcoord, Ycoord |-> Ycoord]
        geoCache == AppendVisitor(l.geoCache, user)
    IN  /\ Idle
        /\ \/ /\ l.err # ErrNone
              /\ store' = store
              /\ last' = Result("AddVisitorToGeoCache", k, user, args, fault, l.err,
                                <<>>, l.gets, 0, 0)
           \/ /\ l.err = ErrNone /\ ~InRange(Xcoord, Ycoord, l.geoCache)
              /\ store' = store
              /\ last' = Result("AddVisitorToGeoCache", k, user, args, fault, OutOfRange,
                                <<>>, l.gets, 0, 0)
           \/ /\ l.err = ErrNone /\ InRange(Xcoord, Ycoord, l.geoCache)
              /\ Len(l.geoCache.Visitors) + Len(l.geoCache.Reports) < MaxLogEntries
              /\ PutState(k, Marshal(geoCache), fault)
              /\ last' = Result("AddVisitorToGeoCache", k, user, args, fault,
                                WriteErr(fault), <<>>, l.gets, 1, 0)
        /\ UNCHANGED <<prior, history>>

\* A swap that hands back the trackable it was given.
Swap_ReturnsNew(geoCache, trackable) ==
    [cacheTrackable |-> trackable,
     geoCache |-> [geoCache EXCEPT !.Trackable = trackable]]

\* cacheTrackable := geoCache.Trackable; geoCache.Trackable = trackable
Swap(geoCache, trackable) ==
    [cacheTrackable |-> geoCache.Trackable,
     geoCache |-> [geoCache EXCEPT !.Trackable = trackable]]

SwitchTrackable(trackable, k, fault) ==
    LET l == Load(k, fault)
        args == [trackable |-> trackable]
        s == Swap(l.geoCache, trackable)
    IN  /\ Idle
        /\ \/ /\ l.err # ErrNone
              /\ store' = store
              /\ last' = Result("SwitchTrackable", k, ZeroUser, args, fault, l.err,
                                <<>>, l.gets, 0, 0)
           \/ /\ l.err = ErrNone
              /\ PutState(k, Marshal(s.geoCache), fault)
              \* return &cacheTrackable, PutState(...): the pointer is returned
              \* whatever PutState answers.
              /\ last' = Result("SwitchTrackable", k, ZeroUser, args, fault,
                                WriteErr(fault), <<s.cacheTrackable>>, l.gets, 1, 0)
        /\ UNCHANGED <<prior, history>>

UpdateCoordGeoCache(user, k, newXcoordRange, newYcoordRange, fault) ==
    LET l == Load(k, fault)
        args == [newXcoordRange |-> newXcoordRange, newYcoordRange |-> newYcoordRange]
        geoCache == [l.geoCache EXCEPT !.XcoordRange = newXcoordRange,
                                       !.YcoordRange = newYcoordRange]
    IN  /\ Idle
        /\ \/ /\ l.err # ErrNone
              /\ store' = store
              /\ last' = Result("UpdateCoordGeoCache", k, user, args, fault, l.err,
                                <<>>, l.gets, 0, 0)
           \/ /\ l.err = ErrNone /\ ~IsOwner(user, l.geoCache)
              /\ store' = store
              /\ last' = Result("UpdateCoordGeoCache", k, user, args, fault, NotOwner,
                                <<>>, l.gets, 0, 0)
           \/ /\ l.err = ErrNone /\ IsOwner(user, l.geoCache)
              /\ PutState(k, Marshal(geoCache), fault)
              /\ last' = Result("UpdateCoordGeoCache", k, user, args, fault,
                                WriteErr(fault), <<>>, l.gets, 1, 0)
        /\ UNCHANGED <<prior, history>>

DeleteGeoCache(user, k, fault) ==
    LET l == Load(k, fault)
    IN  /\ Idle
        /\ \/ /\ l.err # ErrNone
              /\ store' = store
              /\ last' = Result("DeleteGeoCache", k, user, <<>>, fault, l.err, <<>>,
                                l.gets, 0, 0)
           \/ /\ l.err = ErrNone /\ ~IsOwner(user, l.geoCache)
              /\ store' = store
              /\ last' = Result("DeleteGeoCache", k, user, <<>>, fault, NotOwner, <<>>,
                                l.gets, 0, 0)
           \/ /\ l.err = ErrNone /\ IsOwner(user, l.geoCache)
              /\ DelState(k, fault)
              /\ last' = Result("DeleteGeoCache", k, user, <<>>, fault, WriteErr(fault),
                                <<>>, l.gets, 0, 1)
        /\ UNCHANGED <<prior, history>>

ReportGeoCache(user, message, k, fault) ==
    LET l == Load(k, fault)
        args == [message |-> message]
    IN  /\ Idle
        /\ \/ /\ l.err # ErrNone
              /\ UNCHANGED <<store, history>>
              /\ last' = Result("ReportGeoCache", k, user, args, fault, l.err, <<>>,
                                l.gets, 0, 0)
           \/ /\ l.err = ErrNone
              /\ Len(l.geoCache.Visitors) + Len(l.geoCache.Reports) < MaxLogEntries
              /\ \E id \in RandomStrings :
                    /\ PutState(k, Marshal([l.geoCache EXCEPT
                                    !.Reports = Append(@, Report(id, message, user))]),
                                fault)
                    /\ Reported(k, Report(id, message, user), fault)
              /\ last' = Result("ReportGeoCache", k, user, args, fault, WriteErr(fault),
                                <<>>, l.gets, 1, 0)
        /\ prior' = prior

GetReports(user, k, fault) ==
    LET l == Load(k, fault)
    IN  /\ Idle
        /\ store' = store
        /\ last' = Result("GetReports", k, user, <<>>, fault,
                          IF l.err # ErrNone THEN l.err
                          ELSE IF ~IsOwner(user, l.geoCache) THEN NotOwner ELSE ErrNone,
                          IF l.err = ErrNone /\ IsOwner(user, l.geoCache)
                          THEN <<l.geoCache.Reports>> ELSE <<>>,
                          l.gets, 0, 0)
        /\ UNCHANGED <<prior, history>>

\* The platform delivers the result; the contract keeps nothing between calls.
Respond(followed) ==
    /\ ~Idle
    /\ store' = store
    /\ last' = NoCall
    /\ prior' = Summary(last, followed)
    /\ history' = history

Init ==
    /\ store \in [Keys -> {NilBytes, SomeValue}]
    /\ last = NoCall
    /\ prior = NoPrior
    /\ history = [k \in Keys |-> NoHistory]

Faults == {"none", "exists", "read", "write"}

Next ==
    \/ \E k \in Keys, fault \in Faults \ {"read", "write"} : Exists(k, fault)
    \/ \E user \in Users, k \in Keys, label \in Labels, area \in Areas,
          tv \in TrackableValues, fault \in Faults \ {"read"} :
            CreateGeoCache(user, k, label[1], label[2], area[1], area[2], tv, fault)
    \/ \E k \in Keys, fault \in Faults \ {"write"} : ReadGeoCache(k, fault)
    \/ \E user \in Users, k \in Keys, label \in Labels, fault \in Faults :
            UpdateGeoCache(user, k, label[1], label[2], fault)
    \/ \E user \in Users, k \in Keys, x \in Coords, y \in Coords, fault \in Faults :
            AddVisitorToGeoCache(user, k, x, y, fault)
    \/ \E t \in Trackables, k \in Keys, fault \in Faults :
            SwitchTrackable(t, k, fault)
    \/ \E user \in Users, k \in Keys, area \in Areas, fault \in Faults :
            UpdateCoordGeoCache(user, k, area[1], area[2], fault)
    \/ \E user \in Users, k \in Keys, fault \in Faults : DeleteGeoCache(user, k, fault)
    \/ \E user \in Users, message \in Messages, k \in Keys, fault \in Faults :
            ReportGeoCache(user, message, k, fault)
    \/ \E user \in Users, k \in Keys, fault \in Faults \ {"write"} :
            GetReports(user, k, fault)
    \/ Respond({"DeleteGeoCache"})

Spec == Init /\ [][Next]_vars

(***************************************************************************)
(* The first owner-aware revision (src/geo-cache-contract.go, lines 1-215).*)
(* Its User has no Salt and the owner is stored as supplied.  Existence    *)
(* check, ReadGeoCache and AddVisitorToGeoCache read as in the current     *)
(* contract; the other operations work on a fresh new(GeoCache) and never  *)
(* read the stored record.  There is no GetReports.                        *)
(***************************************************************************)
FirstTrackableValue == "You are the first, who discovered this cache!"

\* Callers of this revision: the same identities without a salt, and a client
\* that sends an empty Id.
Anonymous == [Id |-> "", Name |-> "anon", Salt |-> ""]
Users_Rev1 == {[u EXCEPT !.Salt = ""] : u \in Users} \cup {Anonymous}

\* geoCache := new(GeoCache); geoCache.Owner.Id != user.Id, negated.
IsOwner_Rev1(userId) == ZeroGeoCache.Owner.Id = userId

\* The existence check, all that these operations read.
Check_Rev1(k, fault) ==
    LET e == GeoCacheExists(k, fault)
    IN  IF e.err THEN StoreReadError
        ELSE IF ~e.exists THEN NotFound
        ELSE ErrNone

CreateGeoCache_Rev1(user, k, name, description, newXcoordRange, newYcoordRange, fault) ==
    LET e == GeoCacheExists(k, fault)
        args == [name |-> name, description |-> description,
                 newXcoordRange |-> newXcoordRange, newYcoordRange |-> newYcoordRange]
    IN  /\ Idle
        /\ \/ /\ e.err
              /\ UNCHANGED <<store, history>>
              /\ last' = Result("CreateGeoCache", k, user, args, fault,
                                StoreReadError, <<>>, 1, 0, 0)
           \/ /\ ~e.err /\ e.exists
              /\ UNCHANGED <<store, history>>
              /\ last' = Result("CreateGeoCache", k, user, args, fault,
                                AlreadyExists, <<>>, 1, 0, 0)
           \/ /\ ~e.err /\ ~e.exists
              /\ \E id \in RandomStrings :
                    PutState(k, Marshal([ZeroGeoCache EXCEPT
                                 !.Name = name,
                                 !.Description = description,
                                 !.XcoordRange = newXcoordRange,
                                 !.YcoordRange = newYcoordRange,
                                 !.Owner = user,
                                 !.Reports = <<>>,
                                 !.Visitors = <<>>,
                                 !.Trackable = [Id |-> id, Value |-> FirstTrackableValue]]),
                             fault)
              /\ Created(k, user, fault)
              /\ last' = Result("CreateGeoCache", k, user, args, fault,
                                WriteErr(fault), <<>>, 1, 1, 0)
        /\ prior' = prior

\* This revision's UpdateGeoCache is handed the caller's Id alone.
UpdateGeoCache_Rev1(userId, k, newName, newDescription, fault) ==
    LET err == Check_Rev1(k, fault)
        args == [newName |-> newName, newDescription |-> newDescription]
        geoCache == [ZeroGeoCache EXCEPT !.Name = newName, !.Description = newDescription]
        user == [ZeroUser EXCEPT !.Id = userId]
    IN  /\ Idle
        /\ \/ /\ err # ErrNone
              /\ store' = store
              /\ last' = Result("UpdateGeoCache", k, user, args, fault, err, <<>>, 1, 0, 0)
           \/ /\ err = ErrNone /\ ~IsOwner_Rev1(userId)
              /\ store' = store
              /\ last' = Result("UpdateGeoCache", k, user, args, fault, NotOwner, <<>>,
                                1, 0, 0)
           \/ /\ err = ErrNone /\ IsOwner_Rev1(userId)
              /\ PutState(k, Marshal(geoCache), fault)
              /\ last' = Result("UpdateGeoCache", k, user, args, fault, WriteErr(fault),
                                <<>>, 1, 1, 0)
        /\ UNCHANGED <<prior, history>>

SwitchTrackable_Rev1(trackable, k, fault) ==
    LET err == Check_Rev1(k, fault)
        args == [trackable |-> trackable]
        s == Swap(ZeroGeoCache, trackable)
    IN  /\ Idle
        /\ \/ /\ err # ErrNone
              /\ store' = store
              /\ last' = Result("SwitchTrackable", k, ZeroUser, args, fault, err, <<>>,
                                1, 0, 0)
           \/ /\ err = ErrNone
              /\ PutState(k, Marshal(s.geoCache), fault)
              /\ last' = Result("SwitchTrackable", k, ZeroUser, args, fault,
                                WriteErr(fault), <<s.cacheTrackable>>, 1, 1, 0)
        /\ UNCHANGED <<prior, history>>

\* This revision's UpdateCoordGeoCache takes no caller at all, and a newValue
\* it never uses.
UpdateCoordGeoCache_Rev1(k, newValue, newXcoordRange, newYcoordRange, fault) ==
    LET err == Check_Rev1(k, fault)
        args == [newValue |-> newValue,
                 newXcoordRange |-> newXcoordRange, newYcoordRange |-> newYcoordRange]
        geoCache == [ZeroGeoCache EXCEPT !.XcoordRange = newXcoordRange,
                                         !.YcoordRange = newYcoordRange]
    IN  /\ Idle
        /\ \/ /\ err # ErrNone
              /\ store' = store
              /\ last' = Result("UpdateCoordGeoCache", k, ZeroUser, args, fault, err,
                                <<>>, 1, 0, 0)
           \/ /\ err = ErrNone
              /\ PutState(k, Marshal(geoCache), fault)
              /\ last' = Result("UpdateCoordGeoCache", k, ZeroUser, args, fault,
                                WriteErr(fault), <<>>, 1, 1, 0)
        /\ UNCHANGED <<prior, history>>

DeleteGeoCache_Rev1(user, k, fault) ==
    LET err == Check_Rev1(k, fault)
    IN  /\ Idle
        /\ \/ /\ err # ErrNone
              /\ store' = store
              /\ last' = Result("DeleteGeoCache", k, user, <<>>, fault, err, <<>>, 1, 0, 0)
           \/ /\ err = ErrNone /\ ~IsOwner_Rev1(user.Id)
              /\ store' = store
              /\ last' = Result("DeleteGeoCache", k, user, <<>>, fault, NotOwner, <<>>,
                                1, 0, 0)
           \/ /\ err = ErrNone /\ IsOwner_Rev1(user.Id)
              /\ DelState(k, fault)
              /\ last' = Result("DeleteGeoCache", k, user, <<>>, fault, WriteErr(fault),
                                <<>>, 1, 0, 1)
        /\ UNCHANGED <<prior, history>>

\* The report gets no Id here, and is appended to the fresh record's Reports.
ReportGeoCache_Rev1(user, message, k, fault) ==
    LET err == Check_Rev1(k, fault)
        args == [message |-> message]
        geoCache == [ZeroGeoCache EXCEPT !.Reports = Append(@, Report("", message, user))]
    IN  /\ Idle
        /\ \/ /\ err # ErrNone
              /\ UNCHANGED <<store, history>>
              /\ last' = Result("ReportGeoCache", k, user, args, fault, err, <<>>, 1, 0, 0)
           \/ /\ err = ErrNone
              /\ Len(history[k].reports) < MaxLogEntries
              /\ PutState(k, Marshal(geoCache), fault)
              /\ Reported(k, Report("", message, user), fault)
              /\ last' = Result("ReportGeoCache", k, user, args, fault, WriteErr(fault),
                                <<>>, 1, 1, 0)
        /\ prior' = prior

Next_Rev1 ==
    \/ \E k \in Keys, fault \in Faults \ {"read", "write"} : Exists(k, fault)
    \/ \E user \in Users_Rev1, k \in Keys, label \in Labels, area \in Areas,
          fault \in Faults \ {"read"} :
            CreateGeoCache_Rev1(user, k, label[1], label[2], area[1], area[2], fault)
    \/ \E k \in Keys, fault \in Faults \ {"write"} : ReadGeoCache(k, fault)
    \/ \E user \in Users_Rev1, k \in Keys, label \in Labels, fault \in Faults \ {"read"} :
            UpdateGeoCache_Rev1(user.Id, k, label[1], label[2], fault)
    \/ \E user \in Users_Rev1, k \in Keys, x \in Coords, y \in Coords, fault \in Faults :
            AddVisitorToGeoCache(user, k, x, y, fault)
    \/ \E t \in Trackables, k \in Keys, fault \in Faults \ {"read"} :
            SwitchTrackable_Rev1(t, k, fault)
    \/ \E k \in Keys, newValue \in TrackableValues, area \in Areas,
          fault \in Faults \ {"read"} :
            UpdateCoordGeoCache_Rev1(k, newValue, area[1], area[2], fault)
    \/ \E user \in Users_Rev1, k \in Keys, fault \in Faults \ {"read"} :
            DeleteGeoCache_Rev1(user, k, fault)
    \/ \E user \in Users_Rev1, message \in Messages, k \in Keys,
          fault \in Faults \ {"read"} :
            ReportGeoCache_Rev1(user, message, k, fault)
    \/ Respond({"DeleteGeoCache", "SwitchTrackable"})

SpecRev1 == Init /\ [][Next_Rev1]_vars

(***************************************************************************)
(* The current contract over a store with two keys.  Every operation is    *)
(* run on "k1" with each caller, a good and a bad argument and every store *)
(* fault, while "k2" is free, holds foreign bytes or holds a record of its *)
(* own that is created, switched and deleted.                              *)
(***************************************************************************)
Keys_TwoKeys == {"k1", "k2"}

Init_TwoKeys ==
    /\ store \in [Keys_TwoKeys -> {NilBytes, SomeValue}]
    /\ last = NoCall
    /\ prior = NoPrior
    /\ history = [k \in Keys_TwoKeys |-> NoHistory]

Next_TwoKeys ==
    \/ \E k \in Keys_TwoKeys, fault \in Faults \ {"read", "write"} : Exists(k, fault)
    \/ \E k \in Keys_TwoKeys, fault \in Faults \ {"read"} :
            CreateGeoCache(UserA, k, "n0", "d0", <<1, 3>>, <<2, 4>>, "v1", fault)
    \/ \E k \in Keys_TwoKeys, fault \in Faults \ {"write"} : ReadGeoCache(k, fault)
    \/ \E user \in Users, fault \in Faults :
            UpdateGeoCache(user, "k1", "n1", "d1", fault)
    \/ \E x \in {2, 3}, fault \in Faults :
            AddVisitorToGeoCache(UserB, "k1", x, 3, fault)
    \/ \E k \in Keys_TwoKeys, fault \in Faults :
            SwitchTrackable([Id |-> "t9", Value |-> "v9"], k, fault)
    \/ \E user \in Users, fault \in Faults :
            UpdateCoordGeoCache(user, "k1", <<2, 4>>, <<1, 3>>, fault)
    \/ \E user \in Users, k \in Keys_TwoKeys, fault \in Faults :
            DeleteGeoCache(user, k, fault)
    \/ \E fault \in Faults : ReportGeoCache(UserB, "m1", "k1", fault)
    \/ \E user \in Users, fault \in Faults \ {"write"} : GetReports(user, "k1", fault)
    \/ Respond({"DeleteGeoCache"})

SpecTwoKeys == Init_TwoKeys /\ [][Next_TwoKeys]_vars

(***************************************************************************)
(* Replay: the same sequence of invocations on one key, run in two         *)
(* executions that start from the same store.  Here store[e] is the value  *)
(* under the key in execution e.  An invocation is the same in both (its   *)
(* caller, its arguments, the store's fault); what generateRandomString    *)
(* returns is not: it reseeds from time.Now().UnixNano() on every call, so *)
(* each execution draws its own strings.                                   *)
(***************************************************************************)
Executions == {"e1", "e2"}

Invocation(op, user, args, fault) ==
    [NoCall EXCEPT !.op = op, !.user = user, !.args = args, !.fault = fault]

Replay_CreateGeoCache(user, name, description, newXcoordRange, newYcoordRange, trackableValue, fault) ==
    /\ Idle
    /\ \E salt \in [Executions -> RandomStrings], id \in [Executions -> RandomStrings] :
          store' = [e \in Executions |->
                      LET ex == GeoCacheExists(e, fault)
                      IN  IF ex.err \/ ex.exists \/ fault = "write" THEN store[e]
                          ELSE Marshal(NewGeoCache(user, name, description,
                                   newXcoordRange, newYcoordRange, trackableValue,
                                   salt[e], id[e]))]
    /\ last' = Invocation("CreateGeoCache", user,
                          [name |-> name, description |-> description,
                           trackableValue |-> trackableValue], fault)
    /\ UNCHANGED <<prior, history>>

Replay_ReportGeoCache(user, message, fault) ==
    /\ Idle
    /\ \A e \in Executions :
          Load(e, fault).err = ErrNone =>
              Len(Load(e, fault).geoCache.Reports) < MaxLogEntries
    /\ \E id \in [Executions -> RandomStrings] :
          store' = [e \in Executions |->
                      LET l == Load(e, fault)
                      IN  IF l.err # ErrNone \/ fault = "write" THEN store[e]
                          ELSE Marshal([l.geoCache EXCEPT
                                   !.Reports = Append(@, Report(id[e], message, user))])]
    /\ last' = Invocation("ReportGeoCache", user, [message |-> message], fault)
    /\ UNCHANGED <<prior, history>>

Replay_DeleteGeoCache(user, fault) ==
    /\ Idle
    /\ store' = [e \in Executions |->
                    LET l == Load(e, fault)
                    IN  IF l.err # ErrNone \/ ~IsOwner(user, l.geoCache) \/ fault = "write"
                        THEN store[e]
                        ELSE NilBytes]
    /\ last' = Invocation("DeleteGeoCache", user, <<>>, fault)
    /\ UNCHANGED <<prior, history>>

Init_Replay ==
    /\ \E bytes \in {NilBytes, SomeValue} : store = [e \in Executions |-> bytes]
    /\ last = NoCall
    /\ prior = NoPrior
    /\ history = [e \in Executions |-> NoHistory]

Next_Replay ==
    \/ \E user \in Users, fault \in Faults \ {"read"} :
            Replay_CreateGeoCache(user, "n0", "d0", <<1, 3>>, <<2, 4>>, "v1", fault)
    \/ \E user \in Users, message \in Messages, fault \in Faults :
            Replay_ReportGeoCache(user, message, fault)
    \/ \E user \in Users, fault \in Faults : Replay_DeleteGeoCache(user, fault)
    \/ Respond({})

SpecReplay == Init_Replay /\ [][Next_Replay]_vars

(***************************************************************************)
(* Interleaving: two invocations in flight on one key that holds a record, *)
(* stepping at the granularity of store calls.  Each get and each put is   *)
(* atomic and the last put wins; the contract holds no lock and its        *)
(* functions keep what they read in a local geoCache between their calls.  *)
(* Here last[i] is the call invoker i has in flight: where it stands (pc), *)
(* its local geoCache and the report id it drew.  history[k].serial is the *)
(* record obtained by applying the modifications of the invocations that   *)
(* succeeded, in the order of their puts, to the record the key started    *)
(* with.                                                                   *)
(***************************************************************************)
Invokers == {"i1", "i2"}

Waiting ==
    [op |-> "none", user |-> ZeroUser, args |-> <<>>, pc |-> "idle",
     geoCache |-> ZeroGeoCache, id |-> "", err |-> ErrNone]

InFlight(i) == last[i].pc \in {"exists", "read", "put"}

\* What a function does to the geoCache it unmarshalled, before its put.
Effect(call, geoCache) ==
    CASE call.op = "AddVisitorToGeoCache" -> AppendVisitor(geoCache, call.user)
      [] call.op = "ReportGeoCache" ->
            [geoCache EXCEPT
                !.Reports = Append(@, Report(call.id, call.args.message, call.user))]
      [] call.op = "SwitchTrackable" -> Swap(geoCache, call.args.trackable).geoCache
      [] call.op = "UpdateGeoCache" ->
            [geoCache EXCEPT !.Name = call.args.newName,
                             !.Description = call.args.newDescription]

\* The check a function makes on the geoCache it unmarshalled.
Refusal(call, geoCache) ==
    IF call.op = "AddVisitorToGeoCache"
            /\ ~InRange(call.args.Xcoord, call.args.Ycoord, geoCache)
    THEN OutOfRange
    ELSE IF call.op = "UpdateGeoCache" /\ ~IsOwner(call.user, geoCache)
    THEN NotOwner
    ELSE ErrNone

\* An invocation arrives at invoker i.
Invoke(i, op, user, args) ==
    /\ last[i].pc = "idle"
    /\ \A k \in Keys :
          Len(history[k].serial.Visitors) + Len(history[k].serial.Reports)
            + Cardinality({j \in Invokers : InFlight(j)}) < MaxLogEntries
    /\ last' = [last EXCEPT ![i] = [Waiting EXCEPT !.op = op, !.user = user,
                                                   !.args = args, !.pc = "exists"]]
    /\ UNCHANGED <<store, prior, history>>

\* The first get: GeoCacheExists.
CheckExists(i, k) ==
    LET e == GeoCacheExists(k, "none")
    IN  /\ last[i].pc = "exists"
        /\ last' = [last EXCEPT ![i] =
                        IF e.exists THEN [@ EXCEPT !.pc = "read"]
                        ELSE [@ EXCEPT !.pc = "done", !.err = NotFound]]
        /\ UNCHANGED <<store, prior, history>>

\* The second get, json.Unmarshal, the function's check and its change to
\* the local geoCache.
ReadRecord(i, k) ==
    LET u == Unmarshal(GetState(k, "none"))
        call == last[i]
    IN  /\ call.pc = "read"
        /\ \/ /\ u.err
              /\ last' = [last EXCEPT ![i] = [@ EXCEPT !.pc = "done",
                                                       !.err = DeserializationError]]
           \/ /\ ~u.err /\ Refusal(call, u.geoCache) # ErrNone
              /\ last' = [last EXCEPT ![i] = [@ EXCEPT !.pc = "done",
                                                !.err = Refusal(call, u.geoCache)]]
           \/ /\ ~u.err /\ Refusal(call, u.geoCache) = ErrNone
              /\ \E id \in IF call.op = "ReportGeoCache" THEN RandomStrings ELSE {""} :
                    last' = [last EXCEPT ![i] =
                                [@ EXCEPT !.pc = "put", !.id = id,
                                          !.geoCache = Effect([call EXCEPT !.id = id],
                                                              u.geoCache)]]
        /\ UNCHANGED <<store, prior, history>>

\* json.Marshal of the local geoCache and the put that ends the function.
WriteRecord(i, k) ==
    /\ last[i].pc = "put"
    /\ PutState(k, Marshal(last[i].geoCache), "none")
    /\ history' = [history EXCEPT ![k].serial = Effect(last[i], @)]
    /\ last' = [last EXCEPT ![i] = [@ EXCEPT !.pc = "done", !.err = WriteErr("none")]]
    /\ prior' = prior

\* The result goes back to the invoker.
Return(i) ==
    /\ last[i].pc = "done"
    /\ last' = [last EXCEPT ![i] = Waiting]
    /\ UNCHANGED <<store, prior, history>>

Init_Interleaved ==
    /\ \E salt \in RandomStrings, id \in RandomStrings :
          LET geoCache == NewGeoCache(UserA, "n0", "d0", <<1, 3>>, <<2, 4>>, "v1", salt, id)
          IN  /\ store = [k \in Keys |-> Marshal(geoCache)]
              /\ history = [k \in Keys |->
                                [creator |-> <<UserA>>, reports |-> <<>>,
                                 serial |-> geoCache]]
    /\ last = [i \in Invokers |-> Waiting]
    /\ prior = NoPrior

Next_Interleaved ==
    \/ \E i \in Invokers, user \in Users, Xcoord \in {2, 3} :
            Invoke(i, "AddVisitorToGeoCache", user, [Xcoord |-> Xcoord, Ycoord |-> 3])
    \/ \E i \in Invokers, user \in Users, message \in Messages :
            Invoke(i, "ReportGeoCache", user, [message |-> message])
    \/ \E i \in Invokers :
            Invoke(i, "SwitchTrackable", ZeroUser,
                   [trackable |-> [Id |-> "t9", Value |-> "v9"]])
    \/ \E i \in Invokers, user \in Users :
            Invoke(i, "UpdateGeoCache", user, [newName |-> "n1", newDescription |-> "d1"])
    \/ \E i \in Invokers, k \in Keys : CheckExists(i, k)
    \/ \E i \in Invokers, k \in Keys : ReadRecord(i, k)
    \/ \E i \in Invokers, k \in Keys : WriteRecord(i, k)
    \/ \E i \in Invokers : Return(i)

SpecInterleaved == Init_Interleaved /\ [][Next_Interleaved]_vars

(***************************************************************************)
(* The current contract on one key, with the invocation that follows a     *)
(* successful UpdateCoordGeoCache told so (as well as the one that follows *)
(* a successful DeleteGeoCache).                                           *)
(***************************************************************************)
Next_AfterUpdateCoord ==
    \/ \E k \in Keys, fault \in Faults \ {"read", "write"} : Exists(k, fault)
    \/ \E user \in Users, k \in Keys, area \in Areas, fault \in Faults \ {"read"} :
            CreateGeoCache(user, k, "n0", "d0", area[1], area[2], "v1", fault)
    \/ \E k \in Keys, fault \in Faults \ {"write"} : ReadGeoCache(k, fault)
    \/ \E user \in Users, k \in Keys, fault \in Faults :
            UpdateGeoCache(user, k, "n1", "d1", fault)
    \/ \E user \in Users, k \in Keys, x \in Coords, y \in Coords, fault \in Faults :
            AddVisitorToGeoCache(user, k, x, y, fault)
    \/ \E k \in Keys, fault \in Faults :
            SwitchTrackable([Id |-> "t9", Value |-> "v9"], k, fault)
    \/ \E user \in Users, k \in Keys, area \in Areas, fault \in Faults :
            UpdateCoordGeoCache(user, k, area[1], area[2], fault)
    \/ \E user \in Users, k \in Keys, fault \in Faults : DeleteGeoCache(user, k, fault)
    \/ \E user \in Users, message \in Messages, k \in Keys, fault \in Faults :
            ReportGeoCache(user, message, k, fault)
    \/ \E user \in Users, k \in Keys, fault \in Faults \ {"write"} :
            GetReports(user, k, fault)
    \/ Respond({"DeleteGeoCache", "UpdateCoordGeoCache"})

SpecAfterUpdateCoord == Init /\ [][Next_AfterUpdateCoord]_vars

(***************************************************************************)
(* The current contract on one key with ranges of every shape: one that    *)
(* holds an integer, <<1, 3>>, and three that hold none: of width one,     *)
(* <<2, 3>>, of width zero, <<3, 3>>, and with min above max, <<3, 1>>.    *)
(* Visits come from 0 .. 4, which reaches below, into and above them.      *)
(***************************************************************************)
Ranges == {<<1, 3>>, <<2, 3>>, <<3, 3>>, <<3, 1>>}
Points == 0 .. 4

Next_Ranges ==
    \/ \E k \in Keys, fault \in Faults \ {"read", "write"} : Exists(k, fault)
    \/ \E k \in Keys, xr \in Ranges, yr \in Ranges, fault \in Faults \ {"read"} :
            CreateGeoCache(UserA, k, "n0", "d0", xr, yr, "v1", fault)
    \/ \E k \in Keys, fault \in Faults \ {"write"} : ReadGeoCache(k, fault)
    \/ \E k \in Keys, fault \in Faults : UpdateGeoCache(UserA, k, "n1", "d1", fault)
    \/ \E k \in Keys, x \in Points, y \in Points, fault \in Faults :
            AddVisitorToGeoCache(UserB, k, x, y, fault)
    \/ \E k \in Keys, fault \in Faults :
            SwitchTrackable([Id |-> "t9", Value |-> "v9"], k, fault)
    \/ \E user \in Users, k \in Keys, xr \in Ranges, yr \in Ranges, fault \in Faults :
            UpdateCoordGeoCache(user, k, xr, yr, fault)
    \/ \E user \in Users, k \in Keys, fault \in Faults : DeleteGeoCache(user, k, fault)
    \/ \E k \in Keys, fault \in Faults : ReportGeoCache(UserB, "m1", k, fault)
    \/ \E k \in Keys, fault \in Faults \ {"write"} : GetReports(UserA, k, fault)
    \/ Respond({"DeleteGeoCache"})

SpecRanges == Init /\ [][Next_Ranges]_vars

(***************************************************************************)
(* GeoCacheService (src/unnamed/part_002): LogUserInCache calls            *)
(* AddVisitorToGeoCache and then SwitchTrackable on the same key within    *)
(* one invocation.  The store is immediately consistent: the second        *)
(* function reads what the first has put.  Each of the two functions meets *)
(* its own store fault, `fault` and `fault2`.                              *)
(***************************************************************************)

\* The opening of SwitchTrackable inside LogUserInCache: Load on the bytes
\* the key holds after AddVisitorToGeoCache has returned.
LoadBytes(bytes, fault) ==
    LET u == Unmarshal(IF fault = "read" THEN NilBytes ELSE bytes)
    IN  IF fault = "exists"
        THEN [err |-> StoreReadError, geoCache |-> ZeroGeoCache, gets |-> 1]
        ELSE IF bytes = NilBytes
        THEN [err |-> NotFound, geoCache |-> ZeroGeoCache, gets |-> 1]
        ELSE IF u.err
        THEN [err |-> DeserializationError, geoCache |-> ZeroGeoCache, gets |-> 2]
        ELSE [err |-> ErrNone, geoCache |-> u.geoCache, gets |-> 2]

LogUserInCache(user, k, Xcoord, Ycoord, trackable, fault, fault2) ==
    LET l == Load(k, fault)
        args == [Xcoord |-> Xcoord, Ycoord |-> Ycoord, trackable |-> trackable]
        admitted == l.err = ErrNone /\ InRange(Xcoord, Ycoord, l.geoCache)
        err == IF l.err # ErrNone THEN l.err
               ELSE IF ~admitted THEN OutOfRange
               ELSE WriteErr(fault)
        visited == Marshal(AppendVisitor(l.geoCache, user))
        l2 == LoadBytes(visited, fault2)
        s == Swap(l2.geoCache, trackable)
    IN  /\ Idle
        /\ admitted => Len(l.geoCache.Visitors) + Len(l.geoCache.Reports) < MaxLogEntries
        /\ \/ /\ err # ErrNone
              /\ fault2 = "none"
              /\ store' = store
              /\ last' = Result("LogUserInCache", k, user, args, fault, err, <<>>,
                                l.gets, IF admitted THEN 1 ELSE 0, 0)
                            @@ [fault2 |-> fault2]
           \/ /\ err = ErrNone /\ l2.err # ErrNone
              /\ PutState(k, visited, fault)
              /\ last' = Result("LogUserInCache", k, user, args, fault, l2.err, <<>>,
                                l.gets + l2.gets, 1, 0)
                            @@ [fault2 |-> fault2]
           \/ /\ err = ErrNone /\ l2.err = ErrNone
              /\ PutState(k, IF fault2 = "write" THEN visited ELSE Marshal(s.geoCache),
                          fault)
              /\ last' = Result("LogUserInCache", k, user, args, fault, WriteErr(fault2),
                                IF fault2 = "write" THEN <<>> ELSE <<s.cacheTrackable>>,
                                l.gets + l2.gets, 2, 0)
                            @@ [fault2 |-> fault2]
        /\ UNCHANGED <<prior, history>>

Next_Service ==
    \/ \E k \in Keys, fault \in Faults \ {"read", "write"} : Exists(k, fault)
    \/ \E user \in Users, k \in Keys, area \in Areas, fault \in Faults \ {"read"} :
            CreateGeoCache(user, k, "n0", "d0", area[1], area[2], "v1", fault)
    \/ \E k \in Keys, fault \in Faults \ {"write"} : ReadGeoCache(k, fault)
    \/ \E user \in Users, k \in Keys, x \in Coords, y \in Coords, fault \in Faults :
            AddVisitorToGeoCache(user, k, x, y, fault)
    \/ \E k \in Keys, fault \in Faults :
            SwitchTrackable([Id |-> "t9", Value |-> "v9"], k, fault)
    \/ \E user \in Users, k \in Keys, fault \in Faults : DeleteGeoCache(user, k, fault)
    \/ \E user \in Users, message \in Messages, k \in Keys, fault \in Faults :
            ReportGeoCache(user, message, k, fault)
    \/ \E user \in Users, k \in Keys, x \in Coords, y \in Coords,
          trackable \in {[Id |-> "t9", Value |-> "v9"], [Id |-> "t8", Value |-> "v8"]},
          fault \in Faults, fault2 \in Faults :
            LogUserInCache(user, k, x, y, trackable, fault, fault2)
    \/ Respond({"DeleteGeoCache"})

SpecService == Init /\ [][Next_Service]_vars

(***************************************************************************)
(* Properties.  Each is a state predicate over the completed invocation    *)
(* `last` (and the state it left), read while its result is still pending. *)
(***************************************************************************)
Called(op) == last.op = op

\* The caller of the latest successful Create on the invocation's key.
CreatorKnown == Len(history[last.key].creator) = 1
Creator == history[last.key].creator[1]

\* The store failed none of the invocation's calls.
StoreWorks == last.fault = "none"

\* C1: Create on a key that already holds a value fails with AlreadyExists
\* for every caller and every argument (StoreReadError when the existence
\* check itself cannot read), issues no write and leaves the value as it was.
C1_CreateOnExistingKey ==
    (Called("CreateGeoCache") /\ last.old # NilBytes) =>
        /\ last.err = IF last.fault = "exists" THEN StoreReadError ELSE AlreadyExists
        /\ last.puts = 0 /\ last.dels = 0
        /\ store[last.key] = last.old

\* A second caller's Create on a record another caller created is refused.
C1_Witness ==
    /\ Called("CreateGeoCache") /\ last.err = AlreadyExists
    /\ last.old.kind = "json" /\ CreatorKnown
    /\ Creator.Id # last.user.Id
    /\ last.args.name # last.old.doc.Name

OpsOnExisting ==
    {"ReadGeoCache", "UpdateGeoCache", "UpdateCoordGeoCache", "DeleteGeoCache",
     "ReportGeoCache", "GetReports", "AddVisitorToGeoCache", "SwitchTrackable"}

\* C2: Read, UpdateDescriptive, UpdateCoordinates, Delete, Report, GetReports,
\* AddVisitor and SwitchTrackable on a key that holds no value fail with
\* NotFound whatever the caller and arguments (StoreReadError when the
\* existence check cannot read), and issue no put and no delete.
C2_AbsentKeyNotFound ==
    (last.op \in OpsOnExisting /\ last.old = NilBytes) =>
        /\ last.err = IF last.fault = "exists" THEN StoreReadError ELSE NotFound
        /\ last.ret = <<>>
        /\ last.puts = 0 /\ last.dels = 0
        /\ store[last.key] = NilBytes

\* A Delete on a free key, which would have failed at its write, ends with
\* NotFound before any write.
C2_Witness ==
    /\ Called("DeleteGeoCache") /\ last.old = NilBytes
    /\ last.fault = "write" /\ last.err = NotFound

OwnerGated == {"UpdateGeoCache", "UpdateCoordGeoCache", "DeleteGeoCache", "GetReports"}

\* C3: on a record created by raw identity A, UpdateDescriptive,
\* UpdateCoordinates, Delete and GetReports pass the ownership gate for
\* caller A and fail with NotOwner, the record untouched, for any caller
\* with another raw identity.
C3_OwnershipGate ==
    (last.op \in OwnerGated /\ last.old.kind = "json" /\ CreatorKnown
        /\ last.fault \in {"none", "write"}) =>
        IF last.user.Id = Creator.Id
        THEN last.err = IF StoreWorks THEN ErrNone ELSE StoreWriteError
        ELSE /\ last.err = NotOwner
             /\ last.puts = 0 /\ last.dels = 0
             /\ store[last.key] = last.old

\* The geofence as the specification words it.
Inside(x, y, geoCache) ==
    /\ geoCache.XcoordRange[1] < x /\ x < geoCache.XcoordRange[2]
    /\ geoCache.YcoordRange[1] < y /\ y < geoCache.YcoordRange[2]

\* C4: AddVisitor on a readable record succeeds if and only if the point is
\* strictly inside both ranges; otherwise it fails with OutOfRange and the
\* record, its visitor sequence included, is unchanged.
C4_GeofenceStrict ==
    (Called("AddVisitorToGeoCache") /\ last.old.kind = "json") =>
        LET inside == Inside(last.args.Xcoord, last.args.Ycoord, last.old.doc)
        IN  /\ last.err = ErrNone => inside
            /\ (StoreWorks /\ inside) => last.err = ErrNone
            /\ (last.fault \in {"none", "write"} /\ ~inside) =>
                    /\ last.err = OutOfRange
                    /\ last.puts = 0
                    /\ store[last.key] = last.old

\* A visit on the upper bound of the X range, Y strictly inside, is refused.
C4_Witness ==
    /\ Called("AddVisitorToGeoCache") /\ last.old.kind = "json" /\ StoreWorks
    /\ last.args.Xcoord = last.old.doc.XcoordRange[2]
    /\ last.old.doc.YcoordRange[1] < last.args.Ycoord
    /\ last.args.Ycoord < last.old.doc.YcoordRange[2]
    /\ last.err = OutOfRange

\* C5: SwitchTrackable on a readable record returns the trackable the record
\* held and leaves the supplied one in the record; switching the returned
\* trackable back in right away returns the one supplied first and restores
\* the original.
C5_SwitchTrackableSwap ==
    /\ (Called("SwitchTrackable") /\ last.old.kind = "json" /\ StoreWorks) =>
            /\ last.err = ErrNone
            /\ last.ret = <<last.old.doc.Trackable>>
            /\ store[last.key].kind = "json"
            /\ store[last.key].doc.Trackable = last.args.trackable
    /\ (Called("SwitchTrackable") /\ prior.op = "SwitchTrackable"
        /\ prior.key = last.key /\ StoreWorks
        /\ last.args.trackable = prior.ret[1]) =>
            /\ last.err = ErrNone
            /\ last.ret = <<prior.args.trackable>>
            /\ store[last.key].kind = "json"
            /\ store[last.key].doc.Trackable = prior.ret[1]

\* C6: the reports a record holds are exactly those accepted since it was
\* created, in the order of submission: a successful Report leaves them so,
\* a successful GetReports returns them, and GetReports by a caller who is
\* not the owner fails with NotOwner.
C6_ReportsAdditive ==
    /\ (Called("ReportGeoCache") /\ last.err = ErrNone /\ CreatorKnown) =>
            /\ store[last.key].kind = "json"
            /\ store[last.key].doc.Reports = history[last.key].reports
    /\ (Called("GetReports") /\ last.err = ErrNone) =>
            last.ret = <<history[last.key].reports>>
    /\ (Called("GetReports") /\ last.old.kind = "json" /\ CreatorKnown
        /\ StoreWorks /\ last.user.Id # Creator.Id) =>
            last.err = NotOwner

\* C7: a successful UpdateDescriptive by the owner writes the record it read
\* with the name and the description replaced and every other field as it was.
C7_UpdateDescriptiveOnly ==
    (Called("UpdateGeoCache") /\ last.err = ErrNone /\ CreatorKnown
        /\ last.user.Id = Creator.Id) =>
        /\ last.old.kind = "json"
        /\ store[last.key] = Marshal([last.old.doc EXCEPT
                                        !.Name = last.args.newName,
                                        !.Description = last.args.newDescription])

\* C8: UpdateCoordinates is owner-gated like UpdateDescriptive: the owner's
\* call writes the record it read with only the two ranges replaced, any
\* other caller's call fails with NotOwner and changes nothing.
C8_UpdateCoordinatesOnly ==
    (Called("UpdateCoordGeoCache") /\ last.old.kind = "json" /\ CreatorKnown
        /\ StoreWorks) =>
        IF last.user.Id = Creator.Id
        THEN /\ last.err = ErrNone
             /\ store[last.key] = Marshal([last.old.doc EXCEPT
                                        !.XcoordRange = last.args.newXcoordRange,
                                        !.YcoordRange = last.args.newYcoordRange])
        ELSE /\ last.err = NotOwner
             /\ store[last.key] = last.old

\* C9: a Create that succeeds found the key free (Exists false before) and
\* leaves it taken (Exists true after); and a Create on a free key with a
\* working store succeeds for every caller and every argument.
C9_CreateExistence ==
    /\ (Called("CreateGeoCache") /\ last.err = ErrNone) =>
            /\ last.old = NilBytes
            /\ last.puts = 1
            /\ GeoCacheExists(last.key, "none") = [exists |-> TRUE, err |-> FALSE]
    /\ (Called("CreateGeoCache") /\ last.old = NilBytes /\ StoreWorks) =>
            last.err = ErrNone

\* A Create on a free key has succeeded and the key now holds the record.
C9_Witness ==
    /\ Called("CreateGeoCache") /\ last.err = ErrNone
    /\ last.old = NilBytes
    /\ store[last.key].kind = "json"
    /\ store[last.key].doc.Name = last.args.name

\* C10: a successful Delete, which only the owner obtains, removes the key:
\* the Exists that follows it returns false and the Delete that follows it
\* fails with NotFound.
C10_DeleteRemoves ==
    /\ (Called("DeleteGeoCache") /\ last.err = ErrNone) =>
            /\ CreatorKnown /\ last.user.Id = Creator.Id
            /\ last.dels = 1
            /\ store[last.key] = NilBytes
    /\ (prior.op = "DeleteGeoCache" /\ last.key = prior.key
        /\ Called("GeoCacheExists") /\ StoreWorks) =>
            /\ last.err = ErrNone
            /\ last.ret = <<FALSE>>
    /\ (prior.op = "DeleteGeoCache" /\ last.key = prior.key
        /\ Called("DeleteGeoCache") /\ last.fault # "exists") =>
            /\ last.err = NotFound
            /\ store[last.key] = NilBytes

\* The owner deletes the record a second time and is told NotFound.
C10_Witness ==
    /\ prior.op = "DeleteGeoCache" /\ last.key = prior.key
    /\ Called("DeleteGeoCache") /\ StoreWorks
    /\ CreatorKnown /\ last.user.Id = Creator.Id
    /\ last.err = NotFound

\* C11: a successful AddVisitor writes the record it read with the caller
\* appended as the last visitor and every other field as it was; it asks
\* for no ownership: every caller strictly inside the geofence of a readable
\* record succeeds when the store works.
C11_AddVisitorAppends ==
    /\ (Called("AddVisitorToGeoCache") /\ last.err = ErrNone) =>
            /\ last.old.kind = "json"
            /\ last.puts = 1
            /\ store[last.key].kind = "json"
            /\ store[last.key].doc =
                    [last.old.doc EXCEPT !.Visitors = Append(@, last.user)]
    /\ (Called("AddVisitorToGeoCache") /\ last.old.kind = "json" /\ StoreWorks
        /\ Inside(last.args.Xcoord, last.args.Ycoord, last.old.doc)) =>
            last.err = ErrNone

\* A caller who is not the creator is appended behind an earlier visitor.
C11_Witness ==
    /\ Called("AddVisitorToGeoCache") /\ last.err = ErrNone
    /\ CreatorKnown /\ last.user.Id # Creator.Id
    /\ Len(last.old.doc.Visitors) = 1
    /\ last.old.doc.Visitors[1] # last.user
    /\ Len(store[last.key].doc.Visitors) = 2

\* The invocation handed the record's report sequence to its caller, alone
\* or inside the record.
ReturnsReports ==
    \/ Called("GetReports") /\ last.ret = <<last.old.doc.Reports>>
    \/ Called("ReadGeoCache") /\ Len(last.ret) = 1
            /\ last.ret[1].Reports = last.old.doc.Reports

\* C12: only the owner retrieves a record's reports: whenever an invocation
\* returns the reports of a stored record that has some, its caller's raw
\* identity verifies against the stored commitment and salt.
C12_ReportsOnlyToOwner ==
    (last.old.kind = "json" /\ Len(last.old.doc.Reports) > 0
        /\ last.err = ErrNone /\ ReturnsReports) =>
        last.old.doc.Owner.Id = myHash(last.user.Id \o last.old.doc.Owner.Salt)

\* C13: ownership is immutable.  While a key holds a record, the commitment
\* it stores is the commitment of the raw identity that created it under the
\* stored salt (so the creator passes the ownership check), and no
\* invocation that finds a record and leaves one changes the stored
\* commitment or salt.
C13_OwnershipImmutable ==
    /\ \A k \in Keys :
            store[k].kind = "json" =>
                /\ Len(history[k].creator) = 1
                /\ store[k].doc.Owner.Id =
                        myHash(history[k].creator[1].Id \o store[k].doc.Owner.Salt)
    /\ (~Idle /\ last.old.kind = "json" /\ store[last.key].kind = "json") =>
            /\ store[last.key].doc.Owner.Id = last.old.doc.Owner.Id
            /\ store[last.key].doc.Owner.Salt = last.old.doc.Owner.Salt

ErrorKinds ==
    {StoreReadError, StoreWriteError, AlreadyExists, NotFound,
     DeserializationError, NotOwner, OutOfRange}

\* C14: no partial success: an invocation that returns an error of any kind
\* leaves the store as it found it (a failed put or delete writes nothing),
\* and unless the error is the store's write error it has issued no put
\* and no delete at all.
C14_NoPartialSuccess ==
    (~Idle /\ last.err # ErrNone) =>
        /\ last.err \in ErrorKinds
        /\ store[last.key] = last.old
        /\ last.err # StoreWriteError => (last.puts = 0 /\ last.dels = 0)

\* A report that reached its write and was refused by the store changes nothing.
C14_Witness ==
    /\ Called("ReportGeoCache") /\ last.err = StoreWriteError
    /\ last.puts = 1
    /\ last.old.kind = "json"
    /\ store[last.key] = last.old

\* C15: per key, ABSENT becomes EXISTS only in the step of a successful
\* Create on that key and EXISTS becomes ABSENT only in the step of a
\* successful Delete on that key; no other step (Exists, Read, the two
\* updates, AddVisitor, SwitchTrackable, Report, GetReports, a failed Create
\* or Delete) changes whether a key holds a value.
C15_KeyStateMachine ==
    [][\A k \in Keys :
        /\ (store[k] = NilBytes /\ store'[k] # NilBytes) =>
                (last'.op = "CreateGeoCache" /\ last'.key = k /\ last'.err = ErrNone)
        /\ (store[k] # NilBytes /\ store'[k] = NilBytes) =>
                (last'.op = "DeleteGeoCache" /\ last'.key = k /\ last'.err = ErrNone)
      ]_vars

\* A record that had been created and had collected visits or reports has
\* just been deleted: EXISTS -> ABSENT in a successful Delete.
C15_Witness ==
    /\ Called("DeleteGeoCache") /\ last.err = ErrNone
    /\ last.old.kind = "json"
    /\ Len(last.old.doc.Visitors) + Len(last.old.doc.Reports) = MaxLogEntries
    /\ store[last.key] = NilBytes

IsPrefix(s, t) == Len(s) <= Len(t) /\ SubSeq(t, 1, Len(s)) = s

\* C16: the visitor and report sequences are append-only: an invocation that
\* finds a record and leaves one leaves the old visitor sequence as a prefix
\* of the new one and the old report sequence as a prefix of the new one,
\* and a successful AddVisitor makes the visitor sequence exactly one longer,
\* the caller last, also when the caller is in it already.
C16_LogsAppendOnly ==
    /\ (~Idle /\ last.old.kind = "json" /\ store[last.key].kind = "json") =>
            /\ IsPrefix(last.old.doc.Visitors, store[last.key].doc.Visitors)
            /\ IsPrefix(last.old.doc.Reports, store[last.key].doc.Reports)
    /\ (Called("AddVisitorToGeoCache") /\ last.err = ErrNone) =>
            /\ store[last.key].kind = "json"
            /\ Len(store[last.key].doc.Visitors) = Len(last.old.doc.Visitors) + 1
            /\ store[last.key].doc.Visitors[Len(last.old.doc.Visitors) + 1] = last.user

\* C17: the creator's raw identifier is never persisted in clear: while a
\* key holds the record a caller created, neither the stored owner nor any
\* visitor entry nor any report's notifier carries that caller's raw Id.
C17_RawIdNotStored ==
    \A k \in Keys :
        (store[k].kind = "json" /\ Len(history[k].creator) = 1) =>
            LET rawId == history[k].creator[1].Id
                geoCache == store[k].doc
            IN  /\ geoCache.Owner.Id # rawId
                /\ \A i \in 1 .. Len(geoCache.Visitors) : geoCache.Visitors[i].Id # rawId
                /\ \A i \in 1 .. Len(geoCache.Reports) :
                        geoCache.Reports[i].Notifier.Id # rawId

\* commit(rawId, salt) as `passes` digests of rawId \o salt, each on the
\* previous output, hex-encoded.
Commit(rawId, salt, passes) == HexEncode(Sha1Passes(rawId \o salt, passes))

\* Every commitment the contract stores, and every one it recomputes for an
\* ownership check, is Commit(..., passes) of the raw Id and the stored salt.
CommitmentsUse(passes) ==
    /\ \A k \in Keys :
            (store[k].kind = "json" /\ Len(history[k].creator) = 1) =>
                store[k].doc.Owner.Id =
                    Commit(history[k].creator[1].Id, store[k].doc.Owner.Salt, passes)
    /\ (last.op \in OwnerGated /\ last.old.kind = "json"
        /\ last.fault \in {"none", "write"}) =>
            (last.err = NotOwner <=>
                last.old.doc.Owner.Id #
                    Commit(last.user.Id, last.old.doc.Owner.Salt, passes))

C19_CreateWritesRecord ==
    (Called("CreateGeoCache") /\ last.err = ErrNone) =>
        /\ store[last.key].kind = "json"
        /\ LET geoCache == store[last.key].doc
           IN  /\ geoCache.Name = last.args.name
               /\ geoCache.Description = last.args.description
               /\ geoCache.XcoordRange = last.args.newXcoordRange
               /\ geoCache.YcoordRange = last.args.newYcoordRange
               /\ geoCache.Visitors = <<>>
               /\ geoCache.Reports = <<>>
               /\ geoCache.Trackable.Value = last.args.trackableValue
               /\ geoCache.Trackable.Id \in RandomStrings
               /\ geoCache.Owner.Salt \in RandomStrings
               /\ geoCache.Owner.Id = myHash(last.user.Id \o geoCache.Owner.Salt)

\* A caller who sent a salt of their own has created a record that carries
\* another, generated, salt.
C19_Witness ==
    /\ Called("CreateGeoCache") /\ last.err = ErrNone
    /\ last.user.Salt # ""
    /\ store[last.key].doc.Owner.Salt # last.user.Salt
    /\ store[last.key].doc.Owner.Id # myHash(last.user.Id \o last.user.Salt)

\* C20: Read never writes; on a key whose bytes parse it returns exactly the
\* stored record to whoever asks (it takes no caller and makes no ownership
\* check); on a key whose bytes are not a record it fails with
\* DeserializationError and returns no record.
C20_ReadReturnsStored ==
    Called("ReadGeoCache") =>
        /\ last.puts = 0 /\ last.dels = 0
        /\ store[last.key] = last.old
        /\ (last.old.kind = "json" /\ StoreWorks) =>
                (last.err = ErrNone /\ last.ret = <<last.old.doc>>)
        /\ (last.old.kind = "raw" /\ last.fault # "exists") =>
                (last.err = DeserializationError /\ last.ret = <<>>)
        /\ last.err # ErrNone => last.ret = <<>>

\* A record with a visitor and a report is read back whole.
C20_Witness ==
    /\ Called("ReadGeoCache") /\ last.err = ErrNone
    /\ Len(last.ret) = 1
    /\ Len(last.ret[1].Visitors) = 1 /\ Len(last.ret[1].Reports) = 1
    /\ last.ret[1] = store[last.key].doc

\* C21: Exists answers (false, no error) for a key without a value, (true,
\* no error) for a key with any value, a GeoCache or not, and (false, the
\* store's read error) when the store read fails; it issues one get and
\* never writes.
C21_ExistsAnswers ==
    Called("GeoCacheExists") =>
        /\ last.gets = 1 /\ last.puts = 0 /\ last.dels = 0
        /\ store[last.key] = last.old
        /\ IF last.fault = "exists"
           THEN last.err = StoreReadError /\ last.ret = <<FALSE>>
           ELSE last.err = ErrNone /\ last.ret = <<last.old # NilBytes>>

\* A key holding bytes that are not a GeoCache is reported as existing.
C21_Witness ==
    /\ Called("GeoCacheExists") /\ last.old = SomeValue
    /\ last.err = ErrNone /\ last.ret = <<TRUE>>

\* A store get of the invocation failed: the one inside the existence check,
\* or the read of the record that follows it.
GetFailed ==
    \/ last.fault = "exists" /\ last.gets >= 1
    \/ last.fault = "read" /\ last.gets = 2

\* C22: a store read failure is never swallowed: an invocation one of whose
\* gets failed ends with StoreReadError, not with another error kind and not
\* with success, and writes nothing.
C22_ReadFailureSurfaced ==
    (~Idle /\ GetFailed) =>
        /\ last.err = StoreReadError
        /\ last.puts = 0 /\ last.dels = 0
        /\ store[last.key] = last.old

\* C23: an invocation hands back a value or a failure, never both: whenever
\* it returns an error, SwitchTrackable's error for a failed put included,
\* it returns no value.  (The existence check is left out: its bool result
\* has no empty value, it answers false with every error.)
C23_ValueOrFailure ==
    (~Idle /\ last.err # ErrNone /\ last.op # "GeoCacheExists") => last.ret = <<>>

\* C24: Report asks for no ownership: on a readable record it succeeds for
\* every caller when the store works, and a successful Report writes the
\* record it read with one report appended last, carrying the supplied
\* message and the caller as notifier, every other field as it was.
C24_ReportAppends ==
    /\ (Called("ReportGeoCache") /\ last.old.kind = "json" /\ StoreWorks) =>
            last.err = ErrNone
    /\ (Called("ReportGeoCache") /\ last.old.kind = "json" /\ last.err = ErrNone) =>
            /\ store[last.key].kind = "json"
            /\ LET new == store[last.key].doc
                   n == Len(last.old.doc.Reports)
               IN  /\ Len(new.Reports) = n + 1
                   /\ SubSeq(new.Reports, 1, n) = last.old.doc.Reports
                   /\ new.Reports[n + 1].Message = last.args.message
                   /\ new.Reports[n + 1].Notifier = last.user
                   /\ [new EXCEPT !.Reports = last.old.doc.Reports] = last.old.doc

\* C25: the trackable of an existing record changes only in a successful
\* SwitchTrackable, and then to exactly the supplied trackable, identifier
\* and value; no other invocation that finds a record and leaves one
\* changes or removes its trackable.
C25_TrackableChangesOnlyBySwitch ==
    /\ (~Idle /\ last.old.kind = "json" /\ store[last.key].kind = "json"
        /\ store[last.key].doc.Trackable # last.old.doc.Trackable) =>
            (Called("SwitchTrackable") /\ last.err = ErrNone)
    /\ (Called("SwitchTrackable") /\ last.err = ErrNone) =>
            /\ store[last.key].kind = "json"
            /\ store[last.key].doc.Trackable = last.args.trackable

\* C26: every operation touches a single key: in the step of an invocation
\* with key k the value under every other key stays as it was, and the
\* value the invocation found (and wrote back, modified or not) is the one
\* under k.
C26_SingleKey ==
    [][\A k \in Keys_TwoKeys :
            /\ k # last'.key => store'[k] = store[k]
            /\ k = last'.key => last'.old = store[k]
      ]_vars

\* The owner has deleted "k1" while "k2" holds a record of its own, which
\* is still there.
C26_Witness ==
    /\ Called("DeleteGeoCache") /\ last.err = ErrNone /\ last.key = "k1"
    /\ store["k1"] = NilBytes
    /\ store["k2"].kind = "json"
    /\ store["k2"].doc.Trackable.Id = "t9"

\* C27: deterministic replay: two executions of the same sequence of
\* invocations from the same initial store hold identical values, generated
\* salts, trackable identifiers and report identifiers included.
C27_ReplayDeterministic ==
    \A e1 \in Executions, e2 \in Executions : store[e1] = store[e2]

\* C28: a store write failure is terminal and surfaced: when the put (for
\* Delete, the delete) an operation issues fails, the operation returns
\* StoreWriteError after that one write attempt; it has made no other write
\* call and no store read beyond those that led to the write, and the value
\* under the key is as it was.
C28_WriteFailureTerminal ==
    (~Idle /\ last.fault = "write" /\ last.puts + last.dels >= 1) =>
        /\ last.err = StoreWriteError
        /\ last.puts + last.dels = 1
        /\ last.dels = (IF last.op = "DeleteGeoCache" THEN 1 ELSE 0)
        /\ last.gets = (IF last.op = "CreateGeoCache" THEN 1 ELSE 2)
        /\ store[last.key] = last.old

\* The owner's delete reached the store and the store refused it.
C28_Witness ==
    /\ Called("DeleteGeoCache") /\ last.fault = "write"
    /\ last.dels = 1 /\ last.err = StoreWriteError
    /\ store[last.key].kind = "json"

\* C29: owner-only mutation: while a key holds a record, its name,
\* description and coordinate ranges change only in a successful
\* UpdateDescriptive or UpdateCoordinates, and the record is removed only in
\* a successful Delete, by the caller whose raw identity the record's owner
\* commitment was made from (the identity that created it); no other invocation (AddVisitor, SwitchTrackable,
\* Report, a failed update, any call by a non-owner) alters those fields or
\* removes the record.
C29_OwnerOnlyMutation ==
    (~Idle /\ last.old.kind = "json") =>
        LET old == last.old.doc
            now == store[last.key]
            ByOwner == CreatorKnown /\ last.user.Id = Creator.Id
            Fields(g) == <<g.Name, g.Description, g.XcoordRange, g.YcoordRange>>
        IN  /\ (now.kind = "json" /\ Fields(now.doc) # Fields(old)) =>
                    /\ last.op \in {"UpdateGeoCache", "UpdateCoordGeoCache"}
                    /\ last.err = ErrNone
                    /\ ByOwner
            /\ now.kind # "json" =>
                    /\ Called("DeleteGeoCache")
                    /\ last.err = ErrNone
                    /\ ByOwner

\* C30: no lost append under interleaving: once the invocations on a key
\* have returned, the record stored under it is the one that holds the
\* modification of every invocation that succeeded (every visitor and every
\* report appended, in the order of the puts, after the entries that were
\* there, the latest trackable, name and description), however the store
\* calls of two invocations were interleaved.
C30_NoLostAppend ==
    (\A i \in Invokers : ~InFlight(i)) =>
        \A k \in Keys : store[k] = Marshal(history[k].serial)

\* C31: re-creation after deletion starts a new lifecycle: the Create that
\* follows a successful Delete of the key succeeds for any caller B (given a
\* working store) and stores a record made of B's arguments alone, with
\* empty visitor and report sequences and B's commitment as owner, nothing
\* of the deleted record in it; and on a record created by B any caller of
\* another raw identity, the previous owner included, fails with NotOwner on
\* UpdateDescriptive, UpdateCoordinates, Delete and GetReports.
C31_RecreationStartsAfresh ==
    /\ (Called("CreateGeoCache") /\ prior.op = "DeleteGeoCache"
        /\ prior.key = last.key /\ StoreWorks) =>
            /\ last.err = ErrNone
            /\ \E salt \in RandomStrings, id \in RandomStrings :
                    store[last.key] =
                        Marshal(NewGeoCache(last.user, last.args.name,
                                    last.args.description, last.args.newXcoordRange,
                                    last.args.newYcoordRange, last.args.trackableValue,
                                    salt, id))
            /\ store[last.key].doc.Visitors = <<>>
            /\ store[last.key].doc.Reports = <<>>
            /\ IsOwner(last.user, store[last.key].doc)
            /\ \A user \in Users :
                    user.Id # last.user.Id => ~IsOwner(user, store[last.key].doc)
            /\ history[last.key] = [creator |-> <<last.user>>, reports |-> <<>>]
    /\ (last.op \in OwnerGated /\ last.old.kind = "json" /\ CreatorKnown
        /\ last.user.Id # Creator.Id /\ last.fault \in {"none", "write"}) =>
            /\ last.err = NotOwner
            /\ last.ret = <<>>
            /\ store[last.key] = last.old

\* Caller B has created the key anew right after the owner A, another
\* identity, deleted it.
C31_Witness ==
    /\ Called("CreateGeoCache") /\ last.err = ErrNone
    /\ prior.op = "DeleteGeoCache" /\ prior.key = last.key
    /\ prior.user.Id # last.user.Id
    /\ Creator.Id = last.user.Id

\* C32: AddVisitor is checked against the ranges currently stored: the
\* AddVisitor that follows a successful UpdateCoordinates finds the new
\* ranges in the record, is admitted if and only if its point lies strictly
\* inside them (a point inside the old ranges only gets OutOfRange and
\* changes nothing), and the visitors admitted before the update are still
\* in the visitor sequence, the update having left the sequence as it was.
C32_GeofenceFollowsUpdate ==
    /\ (Called("AddVisitorToGeoCache") /\ prior.op = "UpdateCoordGeoCache"
        /\ prior.key = last.key /\ last.fault \in {"none", "write"}) =>
            LET ranges == [XcoordRange |-> prior.args.newXcoordRange,
                           YcoordRange |-> prior.args.newYcoordRange]
                inside == Inside(last.args.Xcoord, last.args.Ycoord, ranges)
            IN  /\ last.old.kind = "json"
                /\ last.old.doc.XcoordRange = ranges.XcoordRange
                /\ last.old.doc.YcoordRange = ranges.YcoordRange
                /\ last.err = ErrNone => inside
                /\ (StoreWorks /\ inside) =>
                        /\ last.err = ErrNone
                        /\ store[last.key].doc.Visitors =
                                Append(last.old.doc.Visitors, last.user)
                /\ ~inside =>
                        /\ last.err = OutOfRange
                        /\ store[last.key] = last.old
    /\ (Called("UpdateCoordGeoCache") /\ last.err = ErrNone) =>
            /\ store[last.key].kind = "json"
            /\ store[last.key].doc.Visitors = last.old.doc.Visitors

\* After the owner moved the fence to x in (2,4), y in (1,3), a visit at
\* (2,3), which lies inside the other fence x in (1,3), y in (2,4), is
\* refused, and the visitor admitted earlier is still in the record.
C32_Witness ==
    /\ Called("AddVisitorToGeoCache") /\ prior.op = "UpdateCoordGeoCache"
    /\ prior.key = last.key
    /\ prior.args.newXcoordRange = <<2, 4>> /\ prior.args.newYcoordRange = <<1, 3>>
    /\ last.args.Xcoord = 2 /\ last.args.Ycoord = 3
    /\ last.err = OutOfRange
    /\ Len(store[last.key].doc.Visitors) = 1

\* A range with no integer strictly inside it: max - min <= 1.
Degenerate(geoCache) ==
    \/ geoCache.XcoordRange[2] - geoCache.XcoordRange[1] <= 1
    \/ geoCache.YcoordRange[2] - geoCache.YcoordRange[1] <= 1

\* C33: Create and UpdateCoordinates take any pair of integers as a range,
\* min above max included, and store it as given; on a record whose x range
\* or y range has max - min <= 1 every AddVisitor fails with OutOfRange
\* whatever the point, and no invocation lengthens the visitor sequence of
\* such a record: it can grow again only after the ranges have been changed.
C33_DegenerateRanges ==
    /\ (last.op \in {"CreateGeoCache", "UpdateCoordGeoCache"} /\ last.err = ErrNone) =>
            /\ store[last.key].kind = "json"
            /\ store[last.key].doc.XcoordRange = last.args.newXcoordRange
            /\ store[last.key].doc.YcoordRange = last.args.newYcoordRange
    /\ (Called("CreateGeoCache") /\ last.old = NilBytes /\ StoreWorks) =>
            last.err = ErrNone
    /\ (Called("UpdateCoordGeoCache") /\ last.old.kind = "json" /\ StoreWorks
        /\ CreatorKnown /\ last.user.Id = Creator.Id) =>
            last.err = ErrNone
    /\ (Called("AddVisitorToGeoCache") /\ last.old.kind = "json"
        /\ Degenerate(last.old.doc) /\ last.fault \in {"none", "write"}) =>
            /\ last.err = OutOfRange
            /\ last.puts = 0
    /\ (~Idle /\ last.old.kind = "json" /\ Degenerate(last.old.doc)
        /\ store[last.key].kind = "json") =>
            store[last.key].doc.Visitors = last.old.doc.Visitors

\* A visit at x = 2 to a record whose x range is <<3, 1>>, min above max,
\* and whose y range holds the visit's y, is refused.
C33_Witness ==
    /\ Called("AddVisitorToGeoCache") /\ last.old.kind = "json"
    /\ last.old.doc.XcoordRange = <<3, 1>>
    /\ last.old.doc.YcoordRange = <<1, 3>>
    /\ last.args.Xcoord = 2 /\ last.args.Ycoord = 2
    /\ last.err = OutOfRange

\* C34: a key holding bytes that do not parse as a record is stuck: Create
\* on it fails with AlreadyExists, and Read, UpdateDescriptive,
\* UpdateCoordinates, AddVisitor, SwitchTrackable, Delete, Report and
\* GetReports fail with DeserializationError for every caller (with
\* StoreReadError when the existence check cannot read), none of them
\* issuing a put or a delete, so the value stays under the key whatever is
\* invoked; such a key has never been created through the contract.
C34_UnparsableKeyStuck ==
    /\ (~Idle /\ last.old.kind = "raw") =>
            /\ store[last.key] = last.old
            /\ last.puts = 0 /\ last.dels = 0
            /\ last.fault = "exists" => last.err = StoreReadError
            /\ (last.fault # "exists" /\ Called("CreateGeoCache")) =>
                    last.err = AlreadyExists
            /\ (last.fault # "exists" /\ last.op \in OpsOnExisting) =>
                    /\ last.err = DeserializationError
                    /\ last.ret = <<>>
    /\ \A k \in Keys : store[k].kind = "raw" => history[k] = NoHistory

\* A Delete, with the store working, on a key holding foreign bytes is
\* answered with DeserializationError and the bytes stay.
C34_Witness ==
    /\ Called("DeleteGeoCache") /\ last.old = SomeValue /\ StoreWorks
    /\ last.err = DeserializationError
    /\ store[last.key] = SomeValue

\* C35: LogUserInCache success: on a key that holds a record, with a point
\* strictly inside both ranges and every store call succeeding,
\* LogUserInCache returns no error and the trackable the record held before
\* the call, and the record stored afterwards is the one it found with the
\* caller appended to the visitor sequence and the supplied trackable
\* embedded, every other field as it was.
C35_LogUserInCacheSuccess ==
    (Called("LogUserInCache") /\ last.old.kind = "json"
        /\ Inside(last.args.Xcoord, last.args.Ycoord, last.old.doc)
        /\ last.fault = "none" /\ last.fault2 = "none") =>
        /\ last.err = ErrNone
        /\ last.ret = <<last.old.doc.Trackable>>
        /\ store[last.key] =
                Marshal([last.old.doc EXCEPT
                            !.Visitors = Append(@, last.user),
                            !.Trackable = last.args.trackable])

\* A second visitor logs in with a trackable other than the one the record
\* holds, and is handed the record's.
C35_Witness ==
    /\ Called("LogUserInCache") /\ last.err = ErrNone
    /\ Len(last.old.doc.Visitors) = 1
    /\ last.old.doc.Visitors[1].Id # last.user.Id
    /\ last.ret = <<last.old.doc.Trackable>>
    /\ last.args.trackable # last.old.doc.Trackable
    /\ store[last.key].doc.Trackable = last.args.trackable
    /\ Len(store[last.key].doc.Visitors) = 2

\* C36: LogUserInCache is all-or-nothing: whenever it returns an error
\* (absent key, point outside the fence, a store failure in either of its
\* two steps) it returns no trackable and the value under the key is as it
\* was before the call: the visitor is never recorded without the
\* trackable being swapped, and the trackable is never swapped for a caller
\* outside the fence.
C36_LogUserInCacheAllOrNothing ==
    /\ (Called("LogUserInCache") /\ last.err # ErrNone) =>
            /\ last.ret = <<>>
            /\ store[last.key] = last.old
    /\ (Called("LogUserInCache") /\ last.old.kind = "json"
        /\ ~Inside(last.args.Xcoord, last.args.Ycoord, last.old.doc)) =>
            /\ last.err # ErrNone
            /\ store[last.key] = last.old

====
